---------------------------- MODULE Spec2Model ----------------------------
(***************************************************************************)
(* Word Error Rate evaluation (src/src/wer_evaluation.py).                 *)
(*                                                                         *)
(* A text is a sequence of characters; a character is a string naming a    *)
(* code point.  Floating point results are kept as exact fractions         *)
(* [num, den]; float('inf') is the fraction 1/0.                           *)
(*                                                                         *)
(* Five specifications share the variables:                                *)
(*   SpecNormalizar  normalizar_texto on raw texts, applied twice;         *)
(*   SpecAlineacion  calcular_distancia_edicion on token sequences, the    *)
(*                   backtracking loop one iteration per step;             *)
(*   SpecAlineacionJusta  the same, the loop always taking its next step;  *)
(*   SpecWer         calcular_wer on a pair of raw texts;                  *)
(*   Spec            the script: calcular_wer_total and the __main__ block.*)
(***************************************************************************)
EXTENDS Integers, Sequences, FiniteSets, TLC

VARIABLES
    pc,                       \* position of the running function
    ref_words, hyp_words,     \* calcular_distancia_edicion: arguments
    dp,                       \* the (n+1) x (m+1) table, rows 0..n as dp[r+1][c+1]
    i, j,                     \* backtracking indices
    sustituciones, eliminaciones, inserciones,
    rama,                     \* branch taken by the last iteration of the loop
    pasos,                    \* iterations of the while loop so far
    referencia, hipotesis,    \* calcular_wer: arguments
    resultado,                \* calcular_wer: returned dictionary
    archivos,                 \* the two input files: [manual, openai]
    transcripciones_manual, transcripciones_openai,
    resultados_individuales,
    S_total, D_total, I_total, N_total,
    resultados,               \* calcular_wer_total: returned dictionary
    salida,                   \* what has been printed, in order
    resultados_wer_txt,       \* lines written to resultados_wer.txt, <<>> if none
    texto_entrada,            \* normalizar_texto: argument
    normalizado,              \* normalizar_texto(texto)
    renormalizado             \* normalizar_texto(normalizado)

varsAlineacion == <<ref_words, hyp_words, dp, i, j,
                    sustituciones, eliminaciones, inserciones, rama, pasos>>
varsWer == <<referencia, hipotesis, resultado>>
varsTotal == <<archivos, transcripciones_manual, transcripciones_openai,
               resultados_individuales, S_total, D_total, I_total, N_total,
               resultados, salida, resultados_wer_txt>>
varsNormalizar == <<texto_entrada, normalizado, renormalizado>>
vars == <<pc, varsAlineacion, varsWer, varsTotal, varsNormalizar>>

(***************************************************************************)
(* Bounds of the checked instances.                                        *)
(***************************************************************************)
MaxTokens == 3            \* longest token sequence given to the alignment
MaxPalabras == 2          \* most raw words in a text given to calcular_wer
MaxBloques == 2           \* most blank-line separated blocks in an input file
MaxCaracteres == 3        \* longest raw text given to normalizar_texto

Tokens == {"a", "b", "c"}

RECURSIVE SecuenciasHasta(_, _)
SecuenciasHasta(S, n) ==
    IF n = 0 THEN {<<>>}
    ELSE LET cortas == SecuenciasHasta(S, n - 1)
         IN cortas \cup {Append(s, x) : s \in {t \in cortas : Len(t) = n - 1}, x \in S}

RECURSIVE Aplanar(_)
Aplanar(ss) == IF ss = <<>> THEN <<>> ELSE Head(ss) \o Aplanar(Tail(ss))

Min2(x, y) == IF x <= y THEN x ELSE y

(***************************************************************************)
(* Characters.  "a_acute" is U+00E1, "A_acute" U+00C1, "U0301" the         *)
(* combining acute accent (category Mn), "LF" the line feed.               *)
(***************************************************************************)
Caracteres == {"a", "b", "A", "B", "a_acute", "A_acute", "U0301",
               ",", "_", " ", "LF"}

\* str.lower() of one character
Minuscula(c) ==
    CASE c = "A" -> <<"a">>
      [] c = "B" -> <<"b">>
      [] c = "A_acute" -> <<"a_acute">>
      [] OTHER -> <<c>>

\* unicodedata.normalize('NFD', c) of one character
DescomponerNFD(c) ==
    CASE c = "a_acute" -> <<"a", "U0301">>
      [] c = "A_acute" -> <<"A", "U0301">>
      [] OTHER -> <<c>>

\* unicodedata.category(c) == 'Mn'
EsMn(c) == c = "U0301"

\* the regular expression classes \w and \s
EsPalabra(c) == c \in {"a", "b", "A", "B", "a_acute", "A_acute", "_"}
EsEspacio(c) == c \in {" ", "LF"}

\* re.sub(r'\s+', ' ', texto): every maximal run of whitespace becomes one space
RECURSIVE ColapsarEspacios(_)
ColapsarEspacios(texto) ==
    IF texto = <<>> THEN <<>>
    ELSE IF EsEspacio(Head(texto))
         THEN IF Len(texto) > 1 /\ EsEspacio(texto[2])
              THEN ColapsarEspacios(Tail(texto))
              ELSE <<" ">> \o ColapsarEspacios(Tail(texto))
         ELSE <<Head(texto)>> \o ColapsarEspacios(Tail(texto))

\* str.strip()
RECURSIVE QuitarIzquierda(_)
QuitarIzquierda(texto) ==
    IF texto # <<>> /\ EsEspacio(Head(texto)) THEN QuitarIzquierda(Tail(texto))
    ELSE texto

RECURSIVE QuitarDerecha(_)
QuitarDerecha(texto) ==
    IF texto # <<>> /\ EsEspacio(texto[Len(texto)])
    THEN QuitarDerecha(SubSeq(texto, 1, Len(texto) - 1))
    ELSE texto

strip(texto) == QuitarDerecha(QuitarIzquierda(texto))

\* normalizar_texto with strip() applied before the punctuation is replaced
normalizar_texto_StripAntes(texto) ==
    LET minusculas == Aplanar([k \in 1..Len(texto) |-> Minuscula(texto[k])])
        nfd == Aplanar([k \in 1..Len(minusculas) |-> DescomponerNFD(minusculas[k])])
        sin_marcas == strip(SelectSeq(nfd, LAMBDA c : ~EsMn(c)))
        sin_puntuacion == [k \in 1..Len(sin_marcas) |->
                              IF ~EsPalabra(sin_marcas[k]) /\ ~EsEspacio(sin_marcas[k])
                              THEN " " ELSE sin_marcas[k]]
    IN ColapsarEspacios(sin_puntuacion)

normalizar_texto(texto) ==
    LET minusculas == Aplanar([k \in 1..Len(texto) |-> Minuscula(texto[k])])
        nfd == Aplanar([k \in 1..Len(minusculas) |-> DescomponerNFD(minusculas[k])])
        sin_marcas == SelectSeq(nfd, LAMBDA c : ~EsMn(c))
        sin_puntuacion == [k \in 1..Len(sin_marcas) |->
                              IF ~EsPalabra(sin_marcas[k]) /\ ~EsEspacio(sin_marcas[k])
                              THEN " " ELSE sin_marcas[k]]
    IN strip(ColapsarEspacios(sin_puntuacion))

\* str.split(): the maximal runs of non-whitespace characters, in order
RECURSIVE split(_)
split(texto) ==
    LET t == QuitarIzquierda(texto)
        RECURSIVE LargoPalabra(_)
        LargoPalabra(s) == IF s = <<>> \/ EsEspacio(Head(s)) THEN 0
                           ELSE 1 + LargoPalabra(Tail(s))
    IN IF t = <<>> THEN <<>>
       ELSE <<SubSeq(t, 1, LargoPalabra(t))>>
            \o split(SubSeq(t, LargoPalabra(t) + 1, Len(t)))

(***************************************************************************)
(* calcular_distancia_edicion: the table.                                  *)
(***************************************************************************)
Min3(x, y, z) == Min2(x, Min2(y, z))

\* dp[r][c] of the source
DP(tabla, r, c) == tabla[r + 1][c + 1]

\* CeldaDP with the diagonal neighbour left out of the minimum
CeldaDP_SinDiagonal(ref, hyp, r, c, arriba, izquierda, diagonal) ==
    IF ref[r] = hyp[c]
    THEN diagonal
    ELSE 1 + Min2(arriba, izquierda)

\* the value stored in dp[r][c], r >= 1, c >= 1, from its three neighbours
CeldaDP(ref, hyp, r, c, arriba, izquierda, diagonal) ==
    IF ref[r] = hyp[c]
    THEN diagonal
    ELSE 1 + Min3(arriba, izquierda, diagonal)

\* cells 0..c of row r >= 1, given row r-1
RECURSIVE FilaDP(_, _, _, _, _)
FilaDP(ref, hyp, previa, r, c) ==
    IF c = 0 THEN <<r>>
    ELSE LET izq == FilaDP(ref, hyp, previa, r, c - 1)
         IN Append(izq, CeldaDP(ref, hyp, r, c, previa[c + 1], izq[c], previa[c]))

\* rows 0..r of the table
RECURSIVE FilasDP(_, _, _)
FilasDP(ref, hyp, r) ==
    IF r = 0 THEN <<[c \in 1..(Len(hyp) + 1) |-> c - 1]>>
    ELSE LET previas == FilasDP(ref, hyp, r - 1)
         IN Append(previas, FilaDP(ref, hyp, previas[r], r, Len(hyp)))

MatrizDP(ref, hyp) == FilasDP(ref, hyp, Len(ref))

(***************************************************************************)
(* calcular_distancia_edicion: the backtracking.  The loop state is a      *)
(* record of i, j and the three counters; rama names the branch the last   *)
(* iteration took.                                                         *)
(***************************************************************************)
EstadoInicial(ref, hyp) ==
    [i |-> Len(ref), j |-> Len(hyp),
     sustituciones |-> 0, eliminaciones |-> 0, inserciones |-> 0,
     rama |-> "ninguna"]

\* the while condition; a break leaves the loop as well
Continua(e) == (e.i > 0 \/ e.j > 0) /\ e.rama # "break"

\* PasoRetroceso with the deletion test placed before the substitution test
PasoRetroceso_EliminacionPrimero(ref, hyp, tabla, e) ==
    IF e.i > 0 /\ e.j > 0 /\ ref[e.i] = hyp[e.j]
    THEN [e EXCEPT !.i = @ - 1, !.j = @ - 1, !.rama = "acierto"]
    ELSE IF e.i > 0 /\ DP(tabla, e.i, e.j) = DP(tabla, e.i - 1, e.j) + 1
    THEN [e EXCEPT !.eliminaciones = @ + 1, !.i = @ - 1, !.rama = "eliminacion"]
    ELSE IF e.i > 0 /\ e.j > 0 /\ DP(tabla, e.i, e.j) = DP(tabla, e.i - 1, e.j - 1) + 1
    THEN [e EXCEPT !.sustituciones = @ + 1, !.i = @ - 1, !.j = @ - 1,
                   !.rama = "sustitucion"]
    ELSE IF e.j > 0 /\ DP(tabla, e.i, e.j) = DP(tabla, e.i, e.j - 1) + 1
    THEN [e EXCEPT !.inserciones = @ + 1, !.j = @ - 1, !.rama = "insercion"]
    ELSE [e EXCEPT !.rama = "break"]

\* PasoRetroceso whose match branch moves along the reference only
PasoRetroceso_AciertoSinJ(ref, hyp, tabla, e) ==
    IF e.i > 0 /\ e.j > 0 /\ ref[e.i] = hyp[e.j]
    THEN [e EXCEPT !.i = @ - 1, !.rama = "acierto"]
    ELSE IF e.i > 0 /\ e.j > 0 /\ DP(tabla, e.i, e.j) = DP(tabla, e.i - 1, e.j - 1) + 1
    THEN [e EXCEPT !.sustituciones = @ + 1, !.i = @ - 1, !.j = @ - 1,
                   !.rama = "sustitucion"]
    ELSE IF e.i > 0 /\ DP(tabla, e.i, e.j) = DP(tabla, e.i - 1, e.j) + 1
    THEN [e EXCEPT !.eliminaciones = @ + 1, !.i = @ - 1, !.rama = "eliminacion"]
    ELSE IF e.j > 0 /\ DP(tabla, e.i, e.j) = DP(tabla, e.i, e.j - 1) + 1
    THEN [e EXCEPT !.inserciones = @ + 1, !.j = @ - 1, !.rama = "insercion"]
    ELSE [e EXCEPT !.rama = "break"]

\* PasoRetroceso whose substitution test leaves out the cost of the substitution
PasoRetroceso_SustitucionSinCosto(ref, hyp, tabla, e) ==
    IF e.i > 0 /\ e.j > 0 /\ ref[e.i] = hyp[e.j]
    THEN [e EXCEPT !.i = @ - 1, !.j = @ - 1, !.rama = "acierto"]
    ELSE IF e.i > 0 /\ e.j > 0 /\ DP(tabla, e.i, e.j) = DP(tabla, e.i - 1, e.j - 1)
    THEN [e EXCEPT !.sustituciones = @ + 1, !.i = @ - 1, !.j = @ - 1,
                   !.rama = "sustitucion"]
    ELSE IF e.i > 0 /\ DP(tabla, e.i, e.j) = DP(tabla, e.i - 1, e.j) + 1
    THEN [e EXCEPT !.eliminaciones = @ + 1, !.i = @ - 1, !.rama = "eliminacion"]
    ELSE IF e.j > 0 /\ DP(tabla, e.i, e.j) = DP(tabla, e.i, e.j - 1) + 1
    THEN [e EXCEPT !.inserciones = @ + 1, !.j = @ - 1, !.rama = "insercion"]
    ELSE [e EXCEPT !.rama = "break"]

\* PasoRetroceso whose insertion branch counts a deletion
PasoRetroceso_InsercionComoEliminacion(ref, hyp, tabla, e) ==
    IF e.i > 0 /\ e.j > 0 /\ ref[e.i] = hyp[e.j]
    THEN [e EXCEPT !.i = @ - 1, !.j = @ - 1, !.rama = "acierto"]
    ELSE IF e.i > 0 /\ e.j > 0 /\ DP(tabla, e.i, e.j) = DP(tabla, e.i - 1, e.j - 1) + 1
    THEN [e EXCEPT !.sustituciones = @ + 1, !.i = @ - 1, !.j = @ - 1,
                   !.rama = "sustitucion"]
    ELSE IF e.i > 0 /\ DP(tabla, e.i, e.j) = DP(tabla, e.i - 1, e.j) + 1
    THEN [e EXCEPT !.eliminaciones = @ + 1, !.i = @ - 1, !.rama = "eliminacion"]
    ELSE IF e.j > 0 /\ DP(tabla, e.i, e.j) = DP(tabla, e.i, e.j - 1) + 1
    THEN [e EXCEPT !.eliminaciones = @ + 1, !.j = @ - 1, !.rama = "insercion"]
    ELSE [e EXCEPT !.rama = "break"]

\* one iteration of the while loop
PasoRetroceso(ref, hyp, tabla, e) ==
    IF e.i > 0 /\ e.j > 0 /\ ref[e.i] = hyp[e.j]
    THEN [e EXCEPT !.i = @ - 1, !.j = @ - 1, !.rama = "acierto"]
    ELSE IF e.i > 0 /\ e.j > 0 /\ DP(tabla, e.i, e.j) = DP(tabla, e.i - 1, e.j - 1) + 1
    THEN [e EXCEPT !.sustituciones = @ + 1, !.i = @ - 1, !.j = @ - 1,
                   !.rama = "sustitucion"]
    ELSE IF e.i > 0 /\ DP(tabla, e.i, e.j) = DP(tabla, e.i - 1, e.j) + 1
    THEN [e EXCEPT !.eliminaciones = @ + 1, !.i = @ - 1, !.rama = "eliminacion"]
    ELSE IF e.j > 0 /\ DP(tabla, e.i, e.j) = DP(tabla, e.i, e.j - 1) + 1
    THEN [e EXCEPT !.inserciones = @ + 1, !.j = @ - 1, !.rama = "insercion"]
    ELSE [e EXCEPT !.rama = "break"]

RECURSIVE Retroceder(_, _, _, _)
Retroceder(ref, hyp, tabla, e) ==
    IF Continua(e) THEN Retroceder(ref, hyp, tabla, PasoRetroceso(ref, hyp, tabla, e))
    ELSE e

\* the function as a whole: the returned tuple, by name
calcular_distancia_edicion(ref, hyp) ==
    LET tabla == MatrizDP(ref, hyp)
        e == Retroceder(ref, hyp, tabla, EstadoInicial(ref, hyp))
    IN [sustituciones |-> e.sustituciones, eliminaciones |-> e.eliminaciones,
        inserciones |-> e.inserciones, dp |-> tabla]

(***************************************************************************)
(* Floating point values as fractions in lowest terms.  float('inf') is    *)
(* 1/0 and -inf is -1/0.  0/0 stands for a division that raised            *)
(* ZeroDivisionError.                                                      *)
(***************************************************************************)
RECURSIVE MCD(_, _)
MCD(a, b) == IF b = 0 THEN a ELSE MCD(b, a % b)

Abs(x) == IF x < 0 THEN -x ELSE x

\* n/d with d >= 0, in lowest terms
Fraccion(n, d) ==
    IF d = 0 THEN [num |-> IF n > 0 THEN 1 ELSE IF n < 0 THEN -1 ELSE 0, den |-> 0]
    ELSE LET g == MCD(Abs(n), d) IN [num |-> n \div g, den |-> d \div g]

Cero == Fraccion(0, 1)
Uno == Fraccion(1, 1)
Infinito == Fraccion(1, 0)
ZeroDivisionError == Fraccion(0, 0)

\* a / b of two integers; raises when b = 0
Division(a, b) == IF b = 0 THEN ZeroDivisionError ELSE Fraccion(a, b)

Mayor(x, y) == x.num * y.den > y.num * x.den

Resta(x, y) == Fraccion(x.num * y.den - y.num * x.den, x.den * y.den)

Suma(x, y) ==
    IF x.den = 0 /\ y.den = 0 /\ x = y THEN x
    ELSE Fraccion(x.num * y.den + y.num * x.den, x.den * y.den)

\* max(0, x)
Max0(x) == IF Mayor(x, Cero) THEN x ELSE Cero

(***************************************************************************)
(* calcular_wer                                                            *)
(***************************************************************************)
\* MetricasPar with the WER clamped to 1
MetricasPar_WerAcotado(S, D, I, N, H) ==
    LET wer == IF N = 0 THEN (IF H > 0 THEN Infinito ELSE Cero)
               ELSE IF S + D + I > N THEN Uno ELSE Division(S + D + I, N)
        accuracy == IF N = 0 THEN Cero ELSE Max0(Resta(Uno, wer))
    IN [wer |-> wer, accuracy |-> accuracy,
        sustituciones |-> S, eliminaciones |-> D, inserciones |-> I,
        total_errores |-> S + D + I,
        palabras_referencia |-> N, palabras_hipotesis |-> H]

\* MetricasPar without the test for an empty reference
MetricasPar_SinGuarda(S, D, I, N, H) ==
    LET wer == Division(S + D + I, N)
        accuracy == Max0(Resta(Uno, wer))
    IN [wer |-> wer, accuracy |-> accuracy,
        sustituciones |-> S, eliminaciones |-> D, inserciones |-> I,
        total_errores |-> S + D + I,
        palabras_referencia |-> N, palabras_hipotesis |-> H]

\* lines 120-138: the dictionary returned for the counts S, D, I, a reference
\* of N words and a hypothesis of H words
MetricasPar(S, D, I, N, H) ==
    LET wer == IF N = 0 THEN (IF H > 0 THEN Infinito ELSE Cero)
               ELSE Division(S + D + I, N)
        accuracy == IF N = 0 THEN Cero ELSE Max0(Resta(Uno, wer))
    IN [wer |-> wer, accuracy |-> accuracy,
        sustituciones |-> S, eliminaciones |-> D, inserciones |-> I,
        total_errores |-> S + D + I,
        palabras_referencia |-> N, palabras_hipotesis |-> H]

\* the words of a raw text: normalizar_texto(...).split()
Palabras(texto) == split(normalizar_texto(texto))

calcular_wer(ref_texto, hyp_texto) ==
    LET ref == Palabras(ref_texto)
        hyp == Palabras(hyp_texto)
        d == calcular_distancia_edicion(ref, hyp)
    IN MetricasPar(d.sustituciones, d.eliminaciones, d.inserciones,
                   Len(ref), Len(hyp))

\* the call ended in an exception instead of a dictionary
Lanzada(r) == r.wer = ZeroDivisionError

(***************************************************************************)
(* extraer_transcripciones.  A file is [estado, bloques]: estado is        *)
(* "legible", "inexistente" (open raises FileNotFoundError) or "ilegible"  *)
(* (open or read raises another exception); bloques is                     *)
(* contenido.split('\n\n').  The result is the returned list, what was     *)
(* printed, and whether an exception left the function.                    *)
(***************************************************************************)
\* extraer_transcripciones without the `except Exception` clause
extraer_transcripciones_SinExceptGeneral(nombre, archivo) ==
    IF archivo.estado = "inexistente"
    THEN [transcripciones |-> <<>>,
          impreso |-> <<[tipo |-> "error_no_encontrado", archivo |-> nombre]>>,
          excepcion |-> FALSE]
    ELSE IF archivo.estado = "ilegible"
    THEN [transcripciones |-> <<>>, impreso |-> <<>>, excepcion |-> TRUE]
    ELSE [transcripciones |->
              LET limpios == [k \in 1..Len(archivo.bloques) |-> strip(archivo.bloques[k])]
              IN SelectSeq(limpios, LAMBDA t : t # <<>>),
          impreso |-> <<>>,
          excepcion |-> FALSE]

extraer_transcripciones(nombre, archivo) ==
    IF archivo.estado = "inexistente"
    THEN [transcripciones |-> <<>>,
          impreso |-> <<[tipo |-> "error_no_encontrado", archivo |-> nombre]>>,
          excepcion |-> FALSE]
    ELSE IF archivo.estado = "ilegible"
    THEN [transcripciones |-> <<>>,
          impreso |-> <<[tipo |-> "error_lectura", archivo |-> nombre]>>,
          excepcion |-> FALSE]
    ELSE [transcripciones |->
              LET limpios == [k \in 1..Len(archivo.bloques) |-> strip(archivo.bloques[k])]
              IN SelectSeq(limpios, LAMBDA t : t # <<>>),
          impreso |-> <<>>,
          excepcion |-> FALSE]

(***************************************************************************)
(* calcular_wer_total                                                      *)
(***************************************************************************)
\* lista[:n]
Prefijo(lista, n) == SubSeq(lista, 1, Min2(n, Len(lista)))

\* IgualarLongitudes keeping the last min_len items of each list
IgualarLongitudes_Ultimos(manual, openai) ==
    IF Len(manual) # Len(openai)
    THEN LET min_len == Min2(Len(manual), Len(openai))
         IN [manual |-> SubSeq(manual, Len(manual) - min_len + 1, Len(manual)),
             openai |-> SubSeq(openai, Len(openai) - min_len + 1, Len(openai)),
             impreso |-> <<[tipo |-> "advertencia",
                            manual |-> Len(manual), openai |-> Len(openai)]>>]
    ELSE [manual |-> manual, openai |-> openai, impreso |-> <<>>]

\* lines 180-185: the warning and the truncation to the shorter length
IgualarLongitudes(manual, openai) ==
    IF Len(manual) # Len(openai)
    THEN LET min_len == Min2(Len(manual), Len(openai))
         IN [manual |-> Prefijo(manual, min_len),
             openai |-> Prefijo(openai, min_len),
             impreso |-> <<[tipo |-> "advertencia",
                            manual |-> Len(manual), openai |-> Len(openai)]>>]
    ELSE [manual |-> manual, openai |-> openai, impreso |-> <<>>]

RECURSIVE SumaLista(_)
SumaLista(fs) == IF fs = <<>> THEN Cero ELSE Suma(Head(fs), SumaLista(Tail(fs)))

\* np.mean of a non-empty list
Media(fs) ==
    LET total == SumaLista(fs)
    IN Fraccion(total.num, total.den * Len(fs))

\* Resumen with both averages taken from the pooled counts
Resumen_PromedioPonderado(individuales, S, D, I, N) ==
    LET wer_total == IF N > 0 THEN Division(S + D + I, N) ELSE Infinito
        accuracy_total == Max0(Resta(Uno, wer_total))
    IN [wer_promedio |-> wer_total,
        wer_total |-> wer_total,
        accuracy_promedio |-> accuracy_total,
        accuracy_total |-> accuracy_total,
        total_sustituciones |-> S,
        total_eliminaciones |-> D,
        total_inserciones |-> I,
        total_errores |-> S + D + I,
        total_palabras_referencia |-> N,
        num_transcripciones |-> Len(individuales),
        resultados_individuales |-> individuales]

\* lines 209-226: the returned dictionary
Resumen(individuales, S, D, I, N) ==
    LET wer_promedio == Media([k \in 1..Len(individuales) |-> individuales[k].wer])
        wer_total == IF N > 0 THEN Division(S + D + I, N) ELSE Infinito
        accuracy_promedio ==
            Media([k \in 1..Len(individuales) |-> individuales[k].accuracy])
        accuracy_total == Max0(Resta(Uno, wer_total))
    IN [wer_promedio |-> wer_promedio,
        wer_total |-> wer_total,
        accuracy_promedio |-> accuracy_promedio,
        accuracy_total |-> accuracy_total,
        total_sustituciones |-> S,
        total_eliminaciones |-> D,
        total_inserciones |-> I,
        total_errores |-> S + D + I,
        total_palabras_referencia |-> N,
        num_transcripciones |-> Len(individuales),
        resultados_individuales |-> individuales]

\* a value x >= 0 formatted with `decimales` digits: rounded to a multiple of
\* 1/escala, escala = 10^decimales; infinity prints as 'inf'
Formato(x, escala) ==
    IF x.den = 0 THEN x
    ELSE Fraccion((2 * x.num * escala + x.den) \div (2 * x.den), escala)

\* x * 100 of a float
Por100(x) == Fraccion(x.num * 100, x.den)

\* lines 228-253: what mostrar_resultados prints
mostrar_resultados(r) ==
    [tipo |-> "resultados",
     num_transcripciones |-> r.num_transcripciones,
     total_palabras_referencia |-> r.total_palabras_referencia,
     wer_total |-> Formato(r.wer_total, 1000),
     wer_total_porcentaje |-> Formato(Por100(r.wer_total), 10),
     accuracy_total |-> Formato(r.accuracy_total, 1000),
     accuracy_total_porcentaje |-> Formato(Por100(r.accuracy_total), 10),
     wer_promedio |-> Formato(r.wer_promedio, 1000),
     wer_promedio_porcentaje |-> Formato(Por100(r.wer_promedio), 10),
     accuracy_promedio |-> Formato(r.accuracy_promedio, 1000),
     accuracy_promedio_porcentaje |-> Formato(Por100(r.accuracy_promedio), 10),
     total_sustituciones |-> r.total_sustituciones,
     total_eliminaciones |-> r.total_eliminaciones,
     total_inserciones |-> r.total_inserciones,
     total_errores |-> r.total_errores,
     formula |-> [S |-> r.total_sustituciones, D |-> r.total_eliminaciones,
                  I |-> r.total_inserciones, N |-> r.total_palabras_referencia,
                  errores |-> r.total_errores,
                  wer |-> Formato(r.wer_total, 1000)]]

\* LineasArchivo without the line of the reference word count
LineasArchivo_SinPalabras(r) ==
    <<[campo |-> "WER Total",
       valor |-> Formato(r.wer_total, 1000),
       porcentaje |-> Formato(Fraccion(r.wer_total.num * 100, r.wer_total.den), 10)],
      [campo |-> "Precision Total",
       valor |-> Formato(r.accuracy_total, 1000),
       porcentaje |-> Formato(Fraccion(r.accuracy_total.num * 100,
                                       r.accuracy_total.den), 10)],
      [campo |-> "Total de errores", valor |-> r.total_errores]>>

\* lines 270-276: the lines written to resultados_wer.txt
LineasArchivo(r) ==
    <<[campo |-> "WER Total",
       valor |-> Formato(r.wer_total, 1000),
       porcentaje |-> Formato(Fraccion(r.wer_total.num * 100, r.wer_total.den), 10)],
      [campo |-> "Precision Total",
       valor |-> Formato(r.accuracy_total, 1000),
       porcentaje |-> Formato(Fraccion(r.accuracy_total.num * 100,
                                       r.accuracy_total.den), 10)],
      [campo |-> "Total de errores", valor |-> r.total_errores],
      [campo |-> "Total de palabras", valor |-> r.total_palabras_referencia]>>

(***************************************************************************)
(* Idle values of the variables a specification does not use.              *)
(***************************************************************************)
AlineacionInactiva ==
    /\ ref_words = <<>> /\ hyp_words = <<>> /\ dp = <<>>
    /\ i = 0 /\ j = 0
    /\ sustituciones = 0 /\ eliminaciones = 0 /\ inserciones = 0
    /\ rama = "ninguna" /\ pasos = 0

WerInactivo == referencia = <<>> /\ hipotesis = <<>> /\ resultado = <<>>

NormalizarInactivo ==
    texto_entrada = <<>> /\ normalizado = <<>> /\ renormalizado = <<>>

TotalInactivo ==
    /\ archivos = <<>>
    /\ transcripciones_manual = <<>> /\ transcripciones_openai = <<>>
    /\ resultados_individuales = <<>>
    /\ S_total = 0 /\ D_total = 0 /\ I_total = 0 /\ N_total = 0
    /\ resultados = <<>> /\ salida = <<>> /\ resultados_wer_txt = <<>>

(***************************************************************************)
(* SpecAlineacion: calcular_distancia_edicion on every pair of token       *)
(* sequences of at most MaxTokens tokens.                                  *)
(***************************************************************************)
InitAlineacion ==
    /\ pc = "alineacion_inicio"
    /\ ref_words \in SecuenciasHasta(Tokens, MaxTokens)
    /\ hyp_words \in SecuenciasHasta(Tokens, MaxTokens)
    /\ dp = <<>>
    /\ i = 0 /\ j = 0
    /\ sustituciones = 0 /\ eliminaciones = 0 /\ inserciones = 0
    /\ rama = "ninguna" /\ pasos = 0
    /\ WerInactivo
    /\ TotalInactivo
    /\ NormalizarInactivo

EstadoActual ==
    [i |-> i, j |-> j, sustituciones |-> sustituciones,
     eliminaciones |-> eliminaciones, inserciones |-> inserciones, rama |-> rama]

\* lines 55-79: the table is filled, the indices and counters are set
LlenarTabla ==
    /\ pc = "alineacion_inicio"
    /\ dp' = MatrizDP(ref_words, hyp_words)
    /\ i' = Len(ref_words)
    /\ j' = Len(hyp_words)
    /\ sustituciones' = 0 /\ eliminaciones' = 0 /\ inserciones' = 0
    /\ pc' = "retroceso"
    /\ UNCHANGED <<ref_words, hyp_words, rama, pasos, varsWer, varsTotal, varsNormalizar>>

\* lines 81-96: one iteration of the while loop
IterarRetroceso ==
    /\ pc = "retroceso"
    /\ Continua(EstadoActual)
    /\ LET e == PasoRetroceso(ref_words, hyp_words, dp, EstadoActual)
       IN /\ i' = e.i
          /\ j' = e.j
          /\ sustituciones' = e.sustituciones
          /\ eliminaciones' = e.eliminaciones
          /\ inserciones' = e.inserciones
          /\ rama' = e.rama
    /\ pasos' = pasos + 1
    /\ UNCHANGED <<pc, ref_words, hyp_words, dp, varsWer, varsTotal, varsNormalizar>>

\* line 98: the loop is over, the counters are returned
RetornarAlineacion ==
    /\ pc = "retroceso"
    /\ ~Continua(EstadoActual)
    /\ pc' = "alineacion_fin"
    /\ UNCHANGED <<varsAlineacion, varsWer, varsTotal, varsNormalizar>>

NextAlineacion == LlenarTabla \/ IterarRetroceso \/ RetornarAlineacion

SpecAlineacion == InitAlineacion /\ [][NextAlineacion]_vars

(***************************************************************************)
(* The unit-cost Levenshtein distance, by its defining recursion on the    *)
(* first tokens: the least of deleting the head of a, inserting the head   *)
(* of b, and pairing the two heads (free when they are equal).             *)
(***************************************************************************)
RECURSIVE Levenshtein(_, _)
Levenshtein(a, b) ==
    IF a = <<>> THEN Len(b)
    ELSE IF b = <<>> THEN Len(a)
    ELSE Min3(1 + Levenshtein(Tail(a), b),
              1 + Levenshtein(a, Tail(b)),
              (IF Head(a) = Head(b) THEN 0 ELSE 1) + Levenshtein(Tail(a), Tail(b)))

\* C1: for all token sequences ref and hyp, the returned counts add up to the
\* unit-cost Levenshtein distance between them, which is also the value of
\* dp[n][m]: the backtracking counts neither more nor fewer operations.
C1_TotalEsLevenshtein ==
    pc = "alineacion_fin" =>
        /\ sustituciones + eliminaciones + inserciones
               = Levenshtein(ref_words, hyp_words)
        /\ sustituciones + eliminaciones + inserciones
               = DP(dp, Len(ref_words), Len(hyp_words))

\* a finished alignment of two non-empty sequences that needed a substitution
\* and an insertion
C1_Testigo ==
    /\ pc = "alineacion_fin"
    /\ ref_words # <<>> /\ hyp_words # <<>>
    /\ sustituciones > 0 /\ inserciones > 0
    /\ sustituciones + eliminaciones + inserciones
           = Levenshtein(ref_words, hyp_words)

\* C2: every iteration of the backtracking takes the first applicable branch
\* in the order match, substitution, deletion, insertion: a match moves both
\* indices and counts nothing; a substitution is counted whenever there is no
\* match and dp[i][j] = dp[i-1][j-1]+1; a deletion only when neither of these
\* applies and dp[i][j] = dp[i-1][j]+1; an insertion only when none of the
\* three applies and dp[i][j] = dp[i][j-1]+1.
C2_PrioridadDeRamas ==
    [][(pc = "retroceso" /\ pasos' = pasos + 1) =>
        LET acierto == i > 0 /\ j > 0 /\ ref_words[i] = hyp_words[j]
            sust == i > 0 /\ j > 0 /\ DP(dp, i, j) = DP(dp, i - 1, j - 1) + 1
            elim == i > 0 /\ DP(dp, i, j) = DP(dp, i - 1, j) + 1
            ins == j > 0 /\ DP(dp, i, j) = DP(dp, i, j - 1) + 1
        IN /\ acierto =>
                /\ i' = i - 1 /\ j' = j - 1
                /\ sustituciones' = sustituciones
                /\ eliminaciones' = eliminaciones
                /\ inserciones' = inserciones
           /\ (~acierto /\ sust) =>
                /\ i' = i - 1 /\ j' = j - 1
                /\ sustituciones' = sustituciones + 1
                /\ eliminaciones' = eliminaciones
                /\ inserciones' = inserciones
           /\ (~acierto /\ ~sust /\ elim) =>
                /\ i' = i - 1 /\ j' = j
                /\ sustituciones' = sustituciones
                /\ eliminaciones' = eliminaciones + 1
                /\ inserciones' = inserciones
           /\ (~acierto /\ ~sust /\ ~elim /\ ins) =>
                /\ i' = i /\ j' = j - 1
                /\ sustituciones' = sustituciones
                /\ eliminaciones' = eliminaciones
                /\ inserciones' = inserciones + 1
           /\ sustituciones' # sustituciones => (~acierto /\ sust)
           /\ eliminaciones' # eliminaciones => (~acierto /\ ~sust /\ elim)
           /\ inserciones' # inserciones => (~acierto /\ ~sust /\ ~elim /\ ins)
    ]_vars

\* a substitution has just been counted at a cell (i+1, j+1) where the
\* deletion and the insertion conditions held as well
C2_Testigo ==
    /\ pc = "retroceso"
    /\ rama = "sustitucion"
    /\ DP(dp, i + 1, j + 1) = DP(dp, i, j) + 1
    /\ DP(dp, i + 1, j + 1) = DP(dp, i, j + 1) + 1
    /\ DP(dp, i + 1, j + 1) = DP(dp, i + 1, j) + 1

\* C3: calcular_distancia_edicion(a, a) returns S = 0, D = 0 and I = 0 for
\* every token sequence a, the empty one included.
C3_IdenticasSinErrores ==
    (pc = "alineacion_fin" /\ ref_words = hyp_words) =>
        /\ sustituciones = 0
        /\ eliminaciones = 0
        /\ inserciones = 0

\* a finished alignment of a sequence of two or more tokens with itself
C3_Testigo ==
    /\ pc = "alineacion_fin"
    /\ ref_words = hyp_words
    /\ Len(ref_words) >= 2
    /\ pasos = Len(ref_words)
    /\ sustituciones = 0 /\ eliminaciones = 0 /\ inserciones = 0

(***************************************************************************)
(* SpecWer: calcular_wer on every pair of raw texts made of at most        *)
(* MaxPalabras pieces separated by one space.  The pieces cover upper      *)
(* case, an accented letter, a piece that is only punctuation and a piece  *)
(* that punctuation splits into two words.                                 *)
(***************************************************************************)
Trozos == {<<"a">>, <<"B">>, <<"A_acute">>, <<",">>, <<"a", ",", "b">>}

RECURSIVE Unir(_)
Unir(ts) ==
    IF ts = <<>> THEN <<>>
    ELSE IF Len(ts) = 1 THEN ts[1]
    ELSE ts[1] \o <<" ">> \o Unir(Tail(ts))

Textos == {Unir(ts) : ts \in SecuenciasHasta(Trozos, MaxPalabras)}

InitWer ==
    /\ pc = "wer_inicio"
    /\ referencia \in Textos
    /\ hipotesis \in Textos
    /\ resultado = <<>>
    /\ AlineacionInactiva
    /\ TotalInactivo
    /\ NormalizarInactivo

\* lines 112-138: the whole call
CalcularWer ==
    /\ pc = "wer_inicio"
    /\ LET r == calcular_wer(referencia, hipotesis)
       IN IF Lanzada(r)
          THEN pc' = "wer_excepcion" /\ resultado' = <<>>
          ELSE pc' = "wer_fin" /\ resultado' = r
    /\ UNCHANGED <<referencia, hipotesis, varsAlineacion, varsTotal, varsNormalizar>>

NextWer == CalcularWer

SpecWer == InitWer /\ [][NextWer]_vars

WerTerminado == pc \in {"wer_fin", "wer_excepcion"}

\* C4: when the reference has N > 0 words, calcular_wer returns
\* wer = (S+D+I)/N, which is >= 0 and is not clamped (it exceeds 1 whenever
\* S+D+I > N), accuracy = max(0, 1 - wer), total_errores = S+D+I and
\* palabras_referencia = N.
C4_WerSinAcotar ==
    (WerTerminado /\ Palabras(referencia) # <<>>) =>
        /\ pc = "wer_fin"
        /\ LET N == Len(Palabras(referencia))
               E == resultado.sustituciones + resultado.eliminaciones
                        + resultado.inserciones
           IN /\ resultado.palabras_referencia = N
              /\ resultado.total_errores = E
              /\ resultado.wer.den > 0
              /\ resultado.wer.num * N = E * resultado.wer.den
              /\ resultado.wer.num >= 0
              /\ E > N => resultado.wer.num > resultado.wer.den
              /\ resultado.accuracy.den > 0
              /\ IF E <= N
                 THEN resultado.accuracy.num * N = (N - E) * resultado.accuracy.den
                 ELSE resultado.accuracy.num = 0

\* a reference of one word against a hypothesis of three: two insertions,
\* wer = 2, accuracy = 0
C4_Testigo ==
    /\ pc = "wer_fin"
    /\ resultado.palabras_referencia = 1
    /\ resultado.palabras_hipotesis = 3
    /\ resultado.sustituciones = 0
    /\ resultado.eliminaciones = 0
    /\ resultado.inserciones = 2
    /\ resultado.wer = Fraccion(2, 1)
    /\ resultado.accuracy = Cero

\* C5: when the reference normalizes to no word and the hypothesis to at
\* least one, calcular_wer does not raise and returns wer = infinity,
\* accuracy = 0, S = 0, D = 0 and I = the number of hypothesis words.
C5_ReferenciaVacia ==
    (WerTerminado /\ Palabras(referencia) = <<>> /\ Palabras(hipotesis) # <<>>) =>
        /\ pc = "wer_fin"
        /\ resultado.wer = Infinito
        /\ resultado.accuracy = Cero
        /\ resultado.sustituciones = 0
        /\ resultado.eliminaciones = 0
        /\ resultado.inserciones = Len(Palabras(hipotesis))

\* a reference that is only punctuation against a hypothesis of two words
C5_Testigo ==
    /\ pc = "wer_fin"
    /\ referencia # <<>>
    /\ Palabras(referencia) = <<>>
    /\ Len(Palabras(hipotesis)) = 2
    /\ resultado.wer = Infinito
    /\ resultado.inserciones = 2

\* C6: when both the reference and the hypothesis normalize to no word,
\* calcular_wer returns WER = 0 and accuracy = 1.
C6_AmbasVacias ==
    (WerTerminado /\ Palabras(referencia) = <<>> /\ Palabras(hipotesis) = <<>>) =>
        /\ pc = "wer_fin"
        /\ resultado.wer = Cero
        /\ resultado.accuracy = Uno

(***************************************************************************)
(* Spec: the script.  Each input file is missing, unreadable, or holds at  *)
(* most MaxBloques blocks: one that is only whitespace, one that is only   *)
(* punctuation, and transcripts of one and two words.                      *)
(***************************************************************************)
Bloques == {<<"LF">>, <<",">>, <<"a">>, <<"b">>, <<"B", " ", "b", "LF">>}

Archivos ==
    {[estado |-> "inexistente", bloques |-> <<>>],
     [estado |-> "ilegible", bloques |-> <<>>]}
    \cup {[estado |-> "legible", bloques |-> bs] :
              bs \in SecuenciasHasta(Bloques, MaxBloques)}

Init ==
    /\ pc = "extraer_manual"
    /\ archivos \in [manual : Archivos, openai : Archivos]
    /\ transcripciones_manual = <<>> /\ transcripciones_openai = <<>>
    /\ resultados_individuales = <<>>
    /\ S_total = 0 /\ D_total = 0 /\ I_total = 0 /\ N_total = 0
    /\ resultados = <<>> /\ salida = <<>> /\ resultados_wer_txt = <<>>
    /\ AlineacionInactiva
    /\ WerInactivo
    /\ NormalizarInactivo

\* line 177
ExtraerManual ==
    /\ pc = "extraer_manual"
    /\ LET r == extraer_transcripciones("manual", archivos.manual)
       IN /\ transcripciones_manual' = r.transcripciones
          /\ salida' = salida \o r.impreso
          /\ pc' = IF r.excepcion THEN "excepcion" ELSE "extraer_openai"
    /\ UNCHANGED <<archivos, transcripciones_openai, resultados_individuales,
                   S_total, D_total, I_total, N_total, resultados,
                   resultados_wer_txt, varsAlineacion, varsWer, varsNormalizar>>

\* line 178
ExtraerOpenai ==
    /\ pc = "extraer_openai"
    /\ LET r == extraer_transcripciones("openai", archivos.openai)
       IN /\ transcripciones_openai' = r.transcripciones
          /\ salida' = salida \o r.impreso
          /\ pc' = IF r.excepcion THEN "excepcion" ELSE "comprobar"
    /\ UNCHANGED <<archivos, transcripciones_manual, resultados_individuales,
                   S_total, D_total, I_total, N_total, resultados,
                   resultados_wer_txt, varsAlineacion, varsWer, varsNormalizar>>

\* lines 180-194: warning and truncation, then either the empty result or
\* the start of the loop
Comprobar ==
    /\ pc = "comprobar"
    /\ LET r == IgualarLongitudes(transcripciones_manual, transcripciones_openai)
       IN /\ transcripciones_manual' = r.manual
          /\ transcripciones_openai' = r.openai
          /\ IF r.manual = <<>>
             THEN /\ salida' = salida \o r.impreso
                                \o <<[tipo |-> "error_sin_transcripciones"]>>
                  /\ resultados' = <<>>
                  /\ pc' = "principal"
             ELSE /\ salida' = salida \o r.impreso
                                \o <<[tipo |-> "procesando", n |-> Len(r.manual)]>>
                  /\ resultados' = resultados
                  /\ pc' = "bucle"
    /\ resultados_individuales' = <<>>
    /\ S_total' = 0 /\ D_total' = 0 /\ I_total' = 0 /\ N_total' = 0
    /\ UNCHANGED <<archivos, resultados_wer_txt, varsAlineacion, varsWer, varsNormalizar>>

\* pairs the for loop goes through: zip stops at the shorter list
NumPares == Min2(Len(transcripciones_manual), Len(transcripciones_openai))

\* ProcesarPar with the deletions assigned instead of added
ProcesarPar_SinAcumular ==
    /\ pc = "bucle"
    /\ Len(resultados_individuales) < NumPares
    /\ LET k == Len(resultados_individuales) + 1
           r == calcular_wer(transcripciones_manual[k], transcripciones_openai[k])
       IN IF Lanzada(r)
          THEN /\ pc' = "excepcion"
               /\ UNCHANGED <<resultados_individuales, S_total, D_total, I_total,
                              N_total, salida>>
          ELSE /\ pc' = pc
               /\ resultados_individuales' = Append(resultados_individuales, r)
               /\ S_total' = S_total + r.sustituciones
               /\ D_total' = r.eliminaciones
               /\ I_total' = I_total + r.inserciones
               /\ N_total' = N_total + r.palabras_referencia
               /\ salida' = Append(salida,
                                   [tipo |-> "transcripcion", n |-> k, resultado |-> r])
    /\ UNCHANGED <<archivos, transcripciones_manual, transcripciones_openai,
                   resultados, resultados_wer_txt, varsAlineacion, varsWer, varsNormalizar>>

\* lines 196-207: one iteration of the for loop
ProcesarPar ==
    /\ pc = "bucle"
    /\ Len(resultados_individuales) < NumPares
    /\ LET k == Len(resultados_individuales) + 1
           r == calcular_wer(transcripciones_manual[k], transcripciones_openai[k])
       IN IF Lanzada(r)
          THEN /\ pc' = "excepcion"
               /\ UNCHANGED <<resultados_individuales, S_total, D_total, I_total,
                              N_total, salida>>
          ELSE /\ pc' = pc
               /\ resultados_individuales' = Append(resultados_individuales, r)
               /\ S_total' = S_total + r.sustituciones
               /\ D_total' = D_total + r.eliminaciones
               /\ I_total' = I_total + r.inserciones
               /\ N_total' = N_total + r.palabras_referencia
               /\ salida' = Append(salida,
                                   [tipo |-> "transcripcion", n |-> k, resultado |-> r])
    /\ UNCHANGED <<archivos, transcripciones_manual, transcripciones_openai,
                   resultados, resultados_wer_txt, varsAlineacion, varsWer, varsNormalizar>>

\* lines 209-226: the loop is over, the summary is returned
Resumir ==
    /\ pc = "bucle"
    /\ Len(resultados_individuales) = NumPares
    /\ resultados' = Resumen(resultados_individuales, S_total, D_total, I_total, N_total)
    /\ pc' = "principal"
    /\ UNCHANGED <<archivos, transcripciones_manual, transcripciones_openai,
                   resultados_individuales, S_total, D_total, I_total, N_total,
                   salida, resultados_wer_txt, varsAlineacion, varsWer, varsNormalizar>>

\* lines 266-278: a non-empty result is shown and saved
Guardar ==
    /\ pc = "principal"
    /\ resultados # <<>>
    /\ resultados_wer_txt' = LineasArchivo(resultados)
    /\ salida' = salida \o <<mostrar_resultados(resultados), [tipo |-> "guardado"]>>
    /\ pc' = "fin"
    /\ UNCHANGED <<archivos, transcripciones_manual, transcripciones_openai,
                   resultados_individuales, S_total, D_total, I_total, N_total,
                   resultados, varsAlineacion, varsWer, varsNormalizar>>

\* lines 279-280: an empty result is only reported
NoProcesado ==
    /\ pc = "principal"
    /\ resultados = <<>>
    /\ salida' = Append(salida, [tipo |-> "no_procesado"])
    /\ pc' = "fin"
    /\ UNCHANGED <<archivos, transcripciones_manual, transcripciones_openai,
                   resultados_individuales, S_total, D_total, I_total, N_total,
                   resultados, resultados_wer_txt, varsAlineacion, varsWer, varsNormalizar>>

Next ==
    \/ ExtraerManual
    \/ ExtraerOpenai
    \/ Comprobar
    \/ ProcesarPar
    \/ Resumir
    \/ Guardar
    \/ NoProcesado

Spec == Init /\ [][Next]_vars

(***************************************************************************)
(* The lists as extraer_transcripciones returns them, before truncation.   *)
(***************************************************************************)
ManualOriginal == extraer_transcripciones("manual", archivos.manual).transcripciones
OpenaiOriginal == extraer_transcripciones("openai", archivos.openai).transcripciones

Impreso(tipo) == \E k \in 1..Len(salida) : salida[k].tipo = tipo

DespuesDeComprobar == pc \in {"bucle", "principal", "fin"}
Retornado == pc \in {"principal", "fin"}

\* C7: when the reference list has r items and the hypothesis list h # r
\* items, a warning naming r and h is printed before any pair metric is
\* computed, exactly min(r,h) pairs are processed, pair k being (reference k,
\* hypothesis k) of the original lists, and the mismatch alone does not
\* abort the run: with min(r,h) > 0 the summary is returned and saved.
C7_AdvertenciaYTruncado ==
    LET r == Len(ManualOriginal)
        h == Len(OpenaiOriginal)
        min_len == Min2(r, h)
    IN r # h =>
        /\ pc # "excepcion"
        /\ ~DespuesDeComprobar =>
              (resultados_individuales = <<>> /\ ~Impreso("transcripcion"))
        /\ DespuesDeComprobar =>
              /\ \E k \in 1..Len(salida) :
                    /\ salida[k] = [tipo |-> "advertencia", manual |-> r, openai |-> h]
                    /\ \A q \in 1..k : salida[q].tipo # "transcripcion"
              /\ Len(resultados_individuales) <= min_len
              /\ \A k \in 1..Len(resultados_individuales) :
                    resultados_individuales[k]
                        = calcular_wer(ManualOriginal[k], OpenaiOriginal[k])
        /\ Retornado => Len(resultados_individuales) = min_len
        /\ (Retornado /\ min_len > 0) =>
              /\ resultados # <<>>
              /\ resultados.num_transcripciones = min_len
        /\ (pc = "fin" /\ min_len > 0) => resultados_wer_txt # <<>>

\* two references against one hypothesis: one pair processed, result saved
C7_Testigo ==
    /\ pc = "fin"
    /\ Len(ManualOriginal) = 2
    /\ Len(OpenaiOriginal) = 1
    /\ ManualOriginal[1] # ManualOriginal[2]
    /\ Len(resultados_individuales) = 1
    /\ Impreso("advertencia")
    /\ resultados_wer_txt # <<>>

\* C8: when no usable pair remains (a file is missing or unreadable, a list
\* is empty, or truncation leaves nothing) the failure is reported, no
\* exception reaches the caller, calcular_wer_total returns the empty result
\* without computing any metric, and resultados_wer.txt is never written.
C8_SinParesSinArchivo ==
    Min2(Len(ManualOriginal), Len(OpenaiOriginal)) = 0 =>
        /\ pc # "excepcion"
        /\ resultados_individuales = <<>>
        /\ S_total = 0 /\ D_total = 0 /\ I_total = 0 /\ N_total = 0
        /\ ~Impreso("transcripcion")
        /\ resultados = <<>>
        /\ resultados_wer_txt = <<>>
        /\ pc # "bucle"
        /\ (pc # "extraer_manual" /\ archivos.manual.estado = "inexistente") =>
              \E k \in 1..Len(salida) :
                  salida[k] = [tipo |-> "error_no_encontrado", archivo |-> "manual"]
        /\ (pc # "extraer_manual" /\ archivos.manual.estado = "ilegible") =>
              \E k \in 1..Len(salida) :
                  salida[k] = [tipo |-> "error_lectura", archivo |-> "manual"]
        /\ (DespuesDeComprobar /\ archivos.openai.estado = "inexistente") =>
              \E k \in 1..Len(salida) :
                  salida[k] = [tipo |-> "error_no_encontrado", archivo |-> "openai"]
        /\ (DespuesDeComprobar /\ archivos.openai.estado = "ilegible") =>
              \E k \in 1..Len(salida) :
                  salida[k] = [tipo |-> "error_lectura", archivo |-> "openai"]
        /\ Retornado => Impreso("error_sin_transcripciones")
        /\ pc = "fin" => salida[Len(salida)] = [tipo |-> "no_procesado"]

\* the run has ended with an unreadable reference file and two hypotheses
C8_Testigo ==
    /\ pc = "fin"
    /\ archivos.manual.estado = "ilegible"
    /\ Len(OpenaiOriginal) = 2
    /\ resultados = <<>>
    /\ resultados_wer_txt = <<>>
    /\ Impreso("error_lectura")
    /\ Impreso("no_procesado")

\* C9: for a non-empty corpus, wer_total = (S_total+D_total+I_total)/N_total
\* when N_total > 0; when N_total = 0, wer_total = 0 if there are no errors
\* and infinity only if errors exist; accuracy_total = max(0, 1 - wer_total).
C9_WerTotal ==
    (Retornado /\ resultados # <<>>) =>
        LET E == S_total + D_total + I_total
        IN /\ N_total > 0 => resultados.wer_total = Fraccion(E, N_total)
           /\ (N_total = 0 /\ E = 0) => resultados.wer_total = Cero
           /\ (N_total = 0 /\ E > 0) => resultados.wer_total = Infinito
           /\ resultados.accuracy_total = Max0(Resta(Uno, resultados.wer_total))

(***************************************************************************)
(* The sum of fractions with positive denominators over their common       *)
(* denominator, the product of the denominators.                           *)
(***************************************************************************)
RECURSIVE ProductoDen(_)
ProductoDen(fs) == IF fs = <<>> THEN 1 ELSE Head(fs).den * ProductoDen(Tail(fs))

RECURSIVE NumeradorComun(_, _)
NumeradorComun(fs, P) ==
    IF fs = <<>> THEN 0
    ELSE Head(fs).num * (P \div Head(fs).den) + NumeradorComun(Tail(fs), P)

\* m is the arithmetic mean of the list fs of values in [0, infinity]
EsMediaDe(m, fs) ==
    IF \E k \in 1..Len(fs) : fs[k] = Infinito
    THEN m = Infinito
    ELSE LET P == ProductoDen(fs)
         IN /\ m.den > 0
            /\ m.num * P * Len(fs) = m.den * NumeradorComun(fs, P)

\* C10: for a non-empty corpus wer_promedio is the unweighted mean of the
\* per-pair wer values and accuracy_promedio the unweighted mean of the
\* per-pair accuracy values, over all processed pairs, a pair with infinite
\* wer included (it makes wer_promedio infinite); the pooled counts do not
\* enter.
C10_PromediosNoPonderados ==
    (Retornado /\ resultados # <<>>) =>
        LET n == Min2(Len(ManualOriginal), Len(OpenaiOriginal))
            par(k) == calcular_wer(ManualOriginal[k], OpenaiOriginal[k])
        IN /\ resultados.num_transcripciones = n
           /\ EsMediaDe(resultados.wer_promedio, [k \in 1..n |-> par(k).wer])
           /\ EsMediaDe(resultados.accuracy_promedio, [k \in 1..n |-> par(k).accuracy])

\* two pairs, one with an empty reference and a non-empty hypothesis, one a
\* perfect match: the mean wer is infinite and the mean accuracy 1/2 while
\* the pooled wer is 1 and the pooled accuracy 0
C10_Testigo ==
    /\ pc = "fin"
    /\ resultados # <<>>
    /\ resultados.num_transcripciones = 2
    /\ resultados.resultados_individuales[1].wer = Infinito
    /\ resultados.resultados_individuales[2].wer = Cero
    /\ resultados.wer_promedio = Infinito
    /\ resultados.accuracy_promedio = Fraccion(1, 2)
    /\ resultados.wer_total = Uno
    /\ resultados.accuracy_total = Cero

\* C11: for a corpus of N >= 1 pairs in which every hypothesis transcript is
\* identical to its reference transcript, calcular_wer_total returns
\* wer_promedio = wer_total = 0 and accuracy_promedio = accuracy_total = 1.
C11_CorpusIdentico ==
    (Retornado /\ ManualOriginal # <<>> /\ ManualOriginal = OpenaiOriginal) =>
        /\ resultados # <<>>
        /\ resultados.wer_promedio = Cero
        /\ resultados.wer_total = Cero
        /\ resultados.accuracy_promedio = Uno
        /\ resultados.accuracy_total = Uno

(***************************************************************************)
(* SpecNormalizar: normalizar_texto on every text of at most MaxCaracteres *)
(* characters, then on its own result.                                     *)
(***************************************************************************)
InitNormalizar ==
    /\ pc = "normalizar_inicio"
    /\ texto_entrada \in SecuenciasHasta(Caracteres, MaxCaracteres)
    /\ normalizado = <<>>
    /\ renormalizado = <<>>
    /\ AlineacionInactiva
    /\ WerInactivo
    /\ TotalInactivo

\* lines 35-42 on the raw text
Normalizar ==
    /\ pc = "normalizar_inicio"
    /\ normalizado' = normalizar_texto(texto_entrada)
    /\ pc' = "normalizado"
    /\ UNCHANGED <<texto_entrada, renormalizado, varsAlineacion, varsWer, varsTotal>>

\* lines 35-42 on the result of the first call
Renormalizar ==
    /\ pc = "normalizado"
    /\ renormalizado' = normalizar_texto(normalizado)
    /\ pc' = "renormalizado"
    /\ UNCHANGED <<texto_entrada, normalizado, varsAlineacion, varsWer, varsTotal>>

NextNormalizar == Normalizar \/ Renormalizar

SpecNormalizar == InitNormalizar /\ [][NextNormalizar]_vars

\* C12: normalizar_texto is total and idempotent: it returns for every text,
\* the empty text gives the empty text, and normalizing a normalized text
\* gives it back unchanged.
C12_NormalizarIdempotente ==
    /\ (pc = "normalizado" /\ texto_entrada = <<>>) => normalizado = <<>>
    /\ pc = "renormalizado" => renormalizado = normalizado

\* a text with an upper case accented letter, punctuation and a trailing
\* space has been normalized twice
C12_Testigo ==
    /\ pc = "renormalizado"
    /\ texto_entrada = <<"A_acute", ",", " ">>
    /\ normalizado = <<"a">>
    /\ renormalizado = <<"a">>

CamposArchivo == {resultados_wer_txt[k].campo : k \in 1..Len(resultados_wer_txt)}

\* the printed value v is x to three decimals: infinity for infinity,
\* otherwise within 0.0005 of x
TresDecimales(v, x) ==
    IF x.den = 0 THEN v = x
    ELSE /\ v.den > 0
         /\ 2000 * Abs(v.num * x.den - x.num * v.den) <= v.den * x.den

\* C13 as stated: whenever the run produces a result, the results file
\* holds the total substitutions, deletions and insertions, the total
\* reference words, wer_total, accuracy_total and the formula trace
\* (S+D+I)/N = WER.
C13_InformeCompleto ==
    (pc = "fin" /\ resultados # <<>>) =>
        {"Sustituciones", "Eliminaciones", "Inserciones", "Total de palabras",
         "WER Total", "Precision Total", "Formula"} \subseteq CamposArchivo

\* C13 as amended: whenever the run produces a result, the results file
\* holds exactly wer_total, accuracy_total, the total number of errors
\* S+D+I and the total reference words, in this order; the separate totals
\* of substitutions, deletions and insertions and the formula trace are
\* printed by mostrar_resultados and are not in the file.  Without a result
\* nothing is written.
C13_InformeResumido ==
    /\ (pc = "fin" /\ resultados # <<>>) =>
          /\ [k \in 1..Len(resultados_wer_txt) |-> resultados_wer_txt[k].campo]
                 = <<"WER Total", "Precision Total",
                     "Total de errores", "Total de palabras">>
          /\ TresDecimales(resultados_wer_txt[1].valor, resultados.wer_total)
          /\ TresDecimales(resultados_wer_txt[2].valor, resultados.accuracy_total)
          /\ resultados_wer_txt[3].valor = S_total + D_total + I_total
          /\ resultados_wer_txt[4].valor = N_total
          /\ \E k \in 1..Len(salida) :
                /\ salida[k].tipo = "resultados"
                /\ salida[k].total_sustituciones = S_total
                /\ salida[k].total_eliminaciones = D_total
                /\ salida[k].total_inserciones = I_total
                /\ salida[k].formula.S = S_total
                /\ salida[k].formula.D = D_total
                /\ salida[k].formula.I = I_total
                /\ salida[k].formula.N = N_total
                /\ salida[k].formula.errores = S_total + D_total + I_total
                /\ TresDecimales(salida[k].formula.wer, resultados.wer_total)
    /\ (pc # "fin" \/ resultados = <<>>) => resultados_wer_txt = <<>>

\* a finished run over two pairs with a substitution, a deletion and a
\* pooled rate of 2/3 that prints as 0.667
C13_Testigo ==
    /\ pc = "fin"
    /\ S_total = 1 /\ D_total = 1 /\ I_total = 0 /\ N_total = 3
    /\ Len(resultados_wer_txt) = 4
    /\ resultados_wer_txt[1].valor = Fraccion(667, 1000)
    /\ resultados_wer_txt[3].valor = 2
    /\ resultados_wer_txt[4].valor = 3

RECURSIVE SumaCampo(_, _)
SumaCampo(rs, campo) ==
    IF rs = <<>> THEN 0 ELSE Head(rs)[campo] + SumaCampo(Tail(rs), campo)

\* the running totals are the sums over the pairs processed so far, which are
\* in input order, and the returned summary agrees with them
TotalesAcumulados ==
    DespuesDeComprobar =>
        /\ S_total = SumaCampo(resultados_individuales, "sustituciones")
        /\ D_total = SumaCampo(resultados_individuales, "eliminaciones")
        /\ I_total = SumaCampo(resultados_individuales, "inserciones")
        /\ N_total = SumaCampo(resultados_individuales, "palabras_referencia")
        /\ \A k \in 1..Len(resultados_individuales) :
              resultados_individuales[k]
                  = calcular_wer(transcripciones_manual[k], transcripciones_openai[k])
        /\ (Retornado /\ resultados # <<>>) =>
              /\ resultados.total_errores = S_total + D_total + I_total
              /\ resultados.total_errores
                     = SumaCampo(resultados_individuales, "total_errores")
              /\ resultados.total_sustituciones = S_total
              /\ resultados.total_eliminaciones = D_total
              /\ resultados.total_inserciones = I_total
              /\ resultados.total_palabras_referencia = N_total
              /\ resultados.num_transcripciones = Len(resultados_individuales)
              /\ Len(resultados_individuales) = NumPares

\* C14: after the k-th pair has been processed S_total, D_total, I_total and
\* N_total are the sums of sustituciones, eliminaciones, inserciones and
\* palabras_referencia over the first k entries of resultados_individuales,
\* which are in input order; the totals never decrease; and the returned
\* summary has total_errores = S_total+D_total+I_total = the sum of the
\* per-pair total_errores and num_transcripciones = the number of pairs
\* processed.
C14_TotalesAcumulados ==
    /\ []TotalesAcumulados
    /\ [][/\ S_total' >= S_total
          /\ D_total' >= D_total
          /\ I_total' >= I_total
          /\ N_total' >= N_total]_vars

\* two pairs have been processed, the first with a deletion and the second
\* with a substitution, and the loop has not returned yet
C14_Testigo ==
    /\ pc = "bucle"
    /\ Len(resultados_individuales) = 2
    /\ resultados_individuales[1].eliminaciones = 1
    /\ resultados_individuales[2].sustituciones = 1
    /\ S_total = 1 /\ D_total = 1 /\ I_total = 0 /\ N_total = 3

(***************************************************************************)
(* The backtracking loop under the assumption that the loop, once entered, *)
(* keeps executing: the sequential code takes the loop's next step         *)
(* (another iteration, or the return) whenever it has one.                 *)
(***************************************************************************)
SpecAlineacionJusta ==
    SpecAlineacion /\ WF_vars(IterarRetroceso \/ RetornarAlineacion)

\* C15: the backtracking loop ends after at most n+m iterations at
\* (i,j) = (0,0): every iteration lowers i+j, the iterations made plus the
\* distance left to (0,0) never exceed n+m, the 'else: break' branch is never
\* taken, and a loop that has been entered always reaches the return.
C15_RetrocesoTermina ==
    /\ [](/\ rama # "break"
          /\ pasos + i + j <= Len(ref_words) + Len(hyp_words)
          /\ pc = "alineacion_fin" => (i = 0 /\ j = 0))
    /\ [][(pc = "retroceso" /\ pc' = "retroceso") =>
              (pasos' = pasos + 1 /\ i' + j' < i + j)]_vars
    /\ (pc = "retroceso") ~> (pc = "alineacion_fin")

\* the loop has returned from (0,0) after visiting non-match cells that took
\* the insertion and the deletion branch: ref = a b c, hyp = b c a
C15_Testigo ==
    /\ pc = "alineacion_fin"
    /\ ref_words = <<"a", "b", "c">>
    /\ hyp_words = <<"b", "c", "a">>
    /\ i = 0 /\ j = 0
    /\ pasos = 4
    /\ eliminaciones = 1 /\ inserciones = 1 /\ sustituciones = 0

\* s without its k-th element
SinElemento(s, k) == SubSeq(s, 1, k - 1) \o SubSeq(s, k + 1, Len(s))

\* C16: the counts satisfy D - I = n - m, S + D <= n and S + I <= m: the
\* reference tokens consumed so far are the iterations that were not
\* insertions and the hypothesis tokens consumed are the iterations that were
\* not deletions, so that at the return every reference token was matched,
\* substituted or deleted once and every hypothesis token matched,
\* substituted or inserted once; when hyp is ref with one token removed the
\* result is S = 0, D = 1, I = 0.
C16_ConteoDeTokens ==
    LET n == Len(ref_words)
        m == Len(hyp_words)
    IN /\ pc = "retroceso" =>
            /\ n - i = pasos - inserciones
            /\ m - j = pasos - eliminaciones
       /\ pc = "alineacion_fin" =>
            /\ eliminaciones - inserciones = n - m
            /\ sustituciones + eliminaciones <= n
            /\ sustituciones + inserciones <= m
            /\ n = pasos - inserciones
            /\ m = pasos - eliminaciones
            /\ (\E k \in 1..n : hyp_words = SinElemento(ref_words, k)) =>
                   /\ sustituciones = 0
                   /\ eliminaciones = 1
                   /\ inserciones = 0

\* the call returned for ref = a b c and hyp = a c, the reference without its
\* middle token
C16_Testigo ==
    /\ pc = "alineacion_fin"
    /\ ref_words = <<"a", "b", "c">>
    /\ hyp_words = SinElemento(ref_words, 2)
    /\ sustituciones = 0 /\ eliminaciones = 1 /\ inserciones = 0

=============================================================================
